---- MODULE Spec2Model ----
(***************************************************************************)
(* The two LabJack acquisition scripts, bb_fill_sensor.py and              *)
(* pressure_test.py, as one state machine.  A run is: parse up to three    *)
(* positional arguments, open and configure the device, loop reading the   *)
(* channels, close the device, write the CSV file, plot.                   *)
(*                                                                         *)
(* Times are integer milliseconds: the comparison                          *)
(* (t - tLast) > sampleRate*1E-3 on seconds is (t - tLast) > sampleRate on *)
(* milliseconds.  Voltages are whole volts, pressure is in hundredths of a *)
(* psi, flow in SLPM, so that the two linear conversions stay in the       *)
(* integers.  argv holds the positional arguments after the script name:   *)
(* len(sys.argv) > k is Len(argv) >= k and sys.argv[k] is argv[k].         *)
(***************************************************************************)
EXTENDS Integers, Sequences, FiniteSets, TLC

VARIABLES
    script,      \* which of the two scripts runs
    argv,        \* the positional arguments
    fs,          \* the paths that exist when the script starts
    pc,          \* position in the script
    filename,    \* the str object bound to filename: [val, obj]
    sampleRate,  \* sample interval [ms]
    loopAmount,  \* [tag, val]: the str "infinite" or a number
    response,    \* what input() returned at the prompt, "" when not prompted
    data,        \* the data array, one row per element
    i,           \* iteration counter
    t,           \* last value of time.time() - tStart
    tLast,       \* last sampling time (pressure_test.py)
    handle,      \* the device handle: "unset", "open" or "closed"
    calls,       \* how often each ljm function has been called
    fault,       \* the call whose exception ended or stopped the run
    intr,        \* the position at which KeyboardInterrupt was delivered
    stop,        \* why the while loop was left
    accepted,    \* number of rows np.append has added
    written      \* the files np.savetxt has written, in order

vars == <<script, argv, fs, pc, filename, sampleRate, loopAmount, response,
          data, i, t, tLast, handle, calls, fault, intr, stop, accepted,
          written>>

(***************************************************************************)
(* Bounds of the model.                                                    *)
(***************************************************************************)
\* largest advance of the clock between two readings of time.time() [ms]
MaxStep == 2
\* rows appended in one run before the model stops taking readings
MaxSamples == 2

(***************************************************************************)
(* Inputs.                                                                 *)
(***************************************************************************)
Scripts == {"bb_fill_sensor", "pressure_test"}

NameArgs == {"run1", "discard"}
RateArgs == {<<"1">>, <<"-", "1">>, <<"x">>}
CountArgs == {<<"0">>, <<"2">>, <<"x">>}

ArgVectors ==
    {<<>>} \cup {<<n>> : n \in NameArgs}
           \cup {<<n, r>> : n \in NameArgs, r \in RateArgs}
           \cup {<<n, r, c>> : n \in NameArgs, r \in RateArgs, c \in CountArgs}

Responses == {"y", "Y", "n"}
Levels == {0, 1}

(***************************************************************************)
(* Module-level names of the scripts.                                      *)
(***************************************************************************)
dataDirectory == "data/"

DefaultFilename == [val |-> "discard", obj |-> "const"]

DefaultSampleRate(s) == IF s = "pressure_test" THEN 50 ELSE 10

\* pressure_test.py: 30/sampleRate/1E-3, evaluated with the default sampleRate
DefaultLoopAmount(s) ==
    IF s = "pressure_test"
    THEN [tag |-> "num", val |-> (30 * 1000) \div DefaultSampleRate(s)]
    ELSE [tag |-> "str", val |-> "infinite"]

\* the names read in the loop
names(s) ==
    IF s = "pressure_test" THEN <<"AIN0", "AIN2">>
    ELSE <<"AIN0", "AIN1", "AIN2", "AIN3">>

numFrames(s) == Len(names(s))

(***************************************************************************)
(* Python built-ins the scripts use.                                       *)
(***************************************************************************)
DigitVal ==
    [c \in {"0", "1", "2", "3", "4", "5", "6", "7", "8", "9"} |->
        CASE c = "0" -> 0 [] c = "1" -> 1 [] c = "2" -> 2 [] c = "3" -> 3
          [] c = "4" -> 4 [] c = "5" -> 5 [] c = "6" -> 6 [] c = "7" -> 7
          [] c = "8" -> 8 [] c = "9" -> 9]

RECURSIVE NatOf(_)
NatOf(s) ==
    IF s = <<>> THEN 0
    ELSE 10 * NatOf(SubSeq(s, 1, Len(s) - 1)) + DigitVal[s[Len(s)]]

IsDigits(s) == Len(s) > 0 /\ \A k \in 1..Len(s) : s[k] \in DOMAIN DigitVal

\* int(arg) on a string of characters: [ok, val]; ok = FALSE is ValueError
PyInt(s) ==
    IF IsDigits(s) THEN [ok |-> TRUE, val |-> NatOf(s)]
    ELSE IF Len(s) > 1 /\ s[1] = "-" /\ IsDigits(Tail(s))
         THEN [ok |-> TRUE, val |-> 0 - NatOf(Tail(s))]
    ELSE IF Len(s) > 1 /\ s[1] = "+" /\ IsDigits(Tail(s))
         THEN [ok |-> TRUE, val |-> NatOf(Tail(s))]
    ELSE [ok |-> FALSE, val |-> 0]

\* str.lower() on the answers the model draws
Lower(s) == CASE s = "Y" -> "y" [] s = "N" -> "n" [] OTHER -> s

\* The outcomes of (x is lit) for a str object x and a str literal lit of the
\* script.  The constant bound at module level is the literal's own object.
\* A str that came from outside (sys.argv, input()) with other contents is
\* another object; with equal contents the language leaves it to the
\* interpreter whether the two are one object.
SameObject(x, lit) ==
    IF x.val # lit THEN {FALSE}
    ELSE IF x.obj = "const" THEN {TRUE}
    ELSE BOOLEAN

(***************************************************************************)
(* The state after the imports and the defaults (lines 19-28).             *)
(***************************************************************************)
Terminal == {"done", "exit", "raised"}

LjmCalls == {"openS", "getHandleInfo", "eWriteNames", "startInterval",
             "eReadNames", "waitForNextInterval", "cleanInterval", "close"}

CandidatePaths(a) ==
    IF Len(a) = 0 THEN {}
    ELSE {dataDirectory \o a[1] \o ".csv", a[1] \o ".csv"}

Init ==
    /\ script \in Scripts
    /\ argv \in ArgVectors
    /\ fs \in SUBSET CandidatePaths(argv)
    /\ pc = "argv1"
    /\ filename = DefaultFilename
    /\ sampleRate = DefaultSampleRate(script)
    /\ loopAmount = DefaultLoopAmount(script)
    /\ response = ""
    /\ data = <<>>
    /\ i = 0
    /\ t = 0
    /\ tLast = 0
    /\ handle = "unset"
    /\ calls = [c \in LjmCalls |-> 0]
    /\ fault = "none"
    /\ intr = "none"
    /\ stop = "none"
    /\ accepted = 0
    /\ written = <<>>

Called(c) == calls' = [calls EXCEPT ![c] = @ + 1]

(***************************************************************************)
(* Argument handling (bb_fill_sensor.py 29-74, pressure_test.py 30-75).    *)
(***************************************************************************)
\* whether the answer lets set_filename return
\* bb_fill_sensor.py:42   response is not ("Y" and "y"); "Y" and "y" is "y"
\* pressure_test.py:41-43 response = input().lower(); response != "y"
Continues(s, r) ==
    IF s = "pressure_test" THEN {Lower(r) = "y"}
    ELSE SameObject([val |-> r, obj |-> "input"], "y")

\* if len(sys.argv) > 1: filename = set_filename(sys.argv[1])
SetFilename ==
    /\ pc = "argv1"
    /\ Len(argv) >= 1
    /\ IF (dataDirectory \o argv[1] \o ".csv") \in fs
       THEN \E r \in Responses : \E go \in Continues(script, r) :
               /\ response' = r
               /\ IF go
                  THEN /\ filename' = [val |-> argv[1], obj |-> "argv"]
                       /\ pc' = "argv2"
                  ELSE /\ pc' = "exit"
                       /\ UNCHANGED filename
       ELSE /\ filename' = [val |-> argv[1], obj |-> "argv"]
            /\ pc' = "argv2"
            /\ UNCHANGED response
    /\ UNCHANGED <<script, argv, fs, sampleRate, loopAmount, data, i, t,
                   tLast, handle, calls, fault, intr, stop, accepted,
                   written>>

\* if len(sys.argv) > 2: sampleRate = set_sampleRate(sys.argv[2])
SetSampleRate ==
    /\ pc = "argv2"
    /\ Len(argv) >= 2
    /\ IF PyInt(argv[2]).ok
       THEN /\ sampleRate' = PyInt(argv[2]).val
            /\ pc' = "argv3"
            /\ UNCHANGED fault
       ELSE /\ fault' = "set_sampleRate"
            /\ pc' = "raised"
            /\ UNCHANGED sampleRate
    /\ UNCHANGED <<script, argv, fs, filename, loopAmount, response, data, i,
                   t, tLast, handle, calls, intr, stop, accepted, written>>

\* set_loopAmount that reports the bad argument and keeps the default
SetLoopAmountLenient ==
    /\ pc = "argv3"
    /\ Len(argv) >= 3
    /\ IF PyInt(argv[3]).ok
       THEN /\ loopAmount' = [tag |-> "num", val |-> PyInt(argv[3]).val]
            /\ UNCHANGED fault
       ELSE /\ fault' = "set_loopAmount"
            /\ UNCHANGED loopAmount
    /\ pc' = "open"
    /\ UNCHANGED <<script, argv, fs, filename, sampleRate, response, data, i,
                   t, tLast, handle, calls, intr, stop, accepted, written>>

\* if len(sys.argv) > 3: loopAmount = set_loopAmount(sys.argv[3])
SetLoopAmount ==
    /\ pc = "argv3"
    /\ Len(argv) >= 3
    /\ IF PyInt(argv[3]).ok
       THEN /\ loopAmount' = [tag |-> "num", val |-> PyInt(argv[3]).val]
            /\ pc' = "open"
            /\ UNCHANGED fault
       ELSE /\ fault' = "set_loopAmount"
            /\ pc' = "raised"
            /\ UNCHANGED loopAmount
    /\ UNCHANGED <<script, argv, fs, filename, sampleRate, response, data, i,
                   t, tLast, handle, calls, intr, stop, accepted, written>>

\* the three tests len(sys.argv) > k when the argument is absent
ArgAbsent ==
    /\ \/ pc = "argv1" /\ Len(argv) < 1 /\ pc' = "argv2"
       \/ pc = "argv2" /\ Len(argv) < 2 /\ pc' = "argv3"
       \/ pc = "argv3" /\ Len(argv) < 3 /\ pc' = "open"
    /\ UNCHANGED <<script, argv, fs, filename, sampleRate, loopAmount,
                   response, data, i, t, tLast, handle, calls, fault,
                   intr, stop, accepted, written>>

(***************************************************************************)
(* Configure LabJack (bb_fill_sensor.py 76-115, pressure_test.py 77-114).  *)
(***************************************************************************)
\* handle = ljm.openS("T7", "ANY", "ANY") returns a handle
OpenOk ==
    /\ pc = "open"
    /\ Called("openS")
    /\ handle' = "open"
    /\ pc' = "config"
    /\ UNCHANGED <<script, argv, fs, filename, sampleRate, loopAmount,
                   response, data, i, t, tLast, fault, intr, stop, accepted,
                   written>>

\* ljm.openS raises: no handle, the script ends with a traceback
OpenFail ==
    /\ pc = "open"
    /\ Called("openS")
    /\ fault' = "openS"
    /\ pc' = "raised"
    /\ UNCHANGED <<script, argv, fs, filename, sampleRate, loopAmount,
                   response, data, i, t, tLast, handle, intr, stop, accepted,
                   written>>

\* ljm.getHandleInfo(handle) and ljm.eWriteNames(handle, ...) both return
ConfigOk ==
    /\ pc = "config"
    /\ calls' = [calls EXCEPT !["getHandleInfo"] = @ + 1,
                              !["eWriteNames"] = @ + 1]
    /\ pc' = "start"
    /\ UNCHANGED <<script, argv, fs, filename, sampleRate, loopAmount,
                   response, data, i, t, tLast, handle, fault, intr, stop,
                   accepted, written>>

\* one of the two raises; neither call is inside a try statement
ConfigFail ==
    /\ pc = "config"
    /\ \E c \in {"getHandleInfo", "eWriteNames"} :
          /\ calls' = [k \in LjmCalls |->
                          IF k = "getHandleInfo" \/ k = c
                          THEN calls[k] + 1 ELSE calls[k]]
          /\ fault' = c
    /\ pc' = "raised"
    /\ UNCHANGED <<script, argv, fs, filename, sampleRate, loopAmount,
                   response, data, i, t, tLast, handle, intr, stop, accepted,
                   written>>

\* number of columns of the data array
\* bb_fill_sensor.py:114 np.zeros((1, 1+numFrames)); pressure_test.py:110
Width(s) == IF s = "pressure_test" THEN 6 ELSE 1 + numFrames(s)

Zeros(n) == [k \in 1..n |-> 0]

\* ljm.startInterval (bb_fill_sensor.py only), data, i, tStart, tLast
StartLoop ==
    /\ pc = "start"
    /\ IF script = "bb_fill_sensor"
       THEN Called("startInterval")
       ELSE UNCHANGED calls
    /\ data' = <<Zeros(Width(script))>>
    /\ i' = 0
    /\ t' = 0
    /\ tLast' = 0
    /\ pc' = "loop"
    /\ UNCHANGED <<script, argv, fs, filename, sampleRate, loopAmount,
                   response, handle, fault, intr, stop, accepted, written>>

\* ljm.startInterval raises, outside any try statement
StartFail ==
    /\ pc = "start"
    /\ script = "bb_fill_sensor"
    /\ Called("startInterval")
    /\ fault' = "startInterval"
    /\ pc' = "raised"
    /\ UNCHANGED <<script, argv, fs, filename, sampleRate, loopAmount,
                   response, data, i, t, tLast, handle, intr, stop, accepted,
                   written>>

(***************************************************************************)
(* Record Data (bb_fill_sensor.py 118-148, pressure_test.py 115-149).      *)
(***************************************************************************)
\* where control goes when the while loop is left
AfterLoop(s) == IF s = "bb_fill_sensor" THEN "cleanup" ELSE "close"

\* the positions inside the try statement of the loop body
TryBody == {"loop", "read", "incr", "wait"}

\* the sampling gate with the comparison made inclusive
GateInclusive(now, last, rate) == (now - last) >= rate

\* pressure_test.py:121  (t - tLast) > sampleRate*1E-3
Gate(now, last, rate) == (now - last) > rate

\* pressure_test.py:127-128
Pressure(v) == (v * 320) \div 5
FlowRate(v) == (v * 500) \div 5

\* the row np.append adds (bb_fill_sensor.py:125, pressure_test.py:131)
Record(s, now, n, results) ==
    IF s = "pressure_test"
    THEN <<now, n, results[1], Pressure(results[1]),
           results[2], FlowRate(results[2])>>
    ELSE <<now, results[1], results[2], results[3], results[4]>>

\* what ljm.eReadNames can return: one value per name
Readings(s) == {[k \in 1..numFrames(s) |-> l * k] : l \in Levels}

\* t = time.time() - tStart, dt after the previous reading of the clock;
\* pressure_test.py then tests the sampling gate and sets tLast
LoopTop(dt) ==
    /\ pc = "loop"
    /\ t' = t + dt
    /\ IF script = "pressure_test"
       THEN IF Gate(t', tLast, sampleRate)
            THEN tLast' = t' /\ pc' = "read"
            ELSE tLast' = tLast /\ pc' = "loop"
       ELSE tLast' = tLast /\ pc' = "read"
    /\ UNCHANGED <<script, argv, fs, filename, sampleRate, loopAmount,
                   response, data, i, handle, calls, fault, intr, stop,
                   accepted, written>>

\* ljm.eReadNames returns results; the row is appended
ReadOk(results) ==
    /\ pc = "read"
    /\ Called("eReadNames")
    /\ data' = Append(data, Record(script, t, i, results))
    /\ accepted' = accepted + 1
    /\ pc' = "incr"
    /\ UNCHANGED <<script, argv, fs, filename, sampleRate, loopAmount,
                   response, i, t, tLast, handle, fault, intr, stop, written>>

\* ljm.eReadNames raises and the loop goes on to its next iteration
ReadFailRetry ==
    /\ pc = "read"
    /\ Called("eReadNames")
    /\ fault' = "eReadNames"
    /\ pc' = "loop"
    /\ UNCHANGED <<script, argv, fs, filename, sampleRate, loopAmount,
                   response, data, i, t, tLast, handle, intr, stop, accepted,
                   written>>

\* ljm.eReadNames raises: except Exception prints it and breaks
ReadFail ==
    /\ pc = "read"
    /\ Called("eReadNames")
    /\ fault' = "eReadNames"
    /\ stop' = "error"
    /\ pc' = AfterLoop(script)
    /\ UNCHANGED <<script, argv, fs, filename, sampleRate, loopAmount,
                   response, data, i, t, tLast, handle, intr, accepted,
                   written>>

\* loopAmount is not "infinite" and i >= loopAmount, with i already incremented
\* (a number is never the object of the literal "infinite")
CountReached(n, amount) == amount.tag = "num" /\ n >= amount.val

\* i = i + 1 and the test of the iteration counter
Increment ==
    /\ pc = "incr"
    /\ i' = i + 1
    /\ IF CountReached(i', loopAmount)
       THEN stop' = "count" /\ pc' = AfterLoop(script)
       ELSE /\ stop' = stop
            /\ pc' = IF script = "bb_fill_sensor" THEN "wait" ELSE "loop"
    /\ UNCHANGED <<script, argv, fs, filename, sampleRate, loopAmount,
                   response, data, t, tLast, handle, calls, fault, intr,
                   accepted, written>>

\* ljm.waitForNextInterval(intervalHandle) returns (bb_fill_sensor.py:140)
WaitOk ==
    /\ pc = "wait"
    /\ Called("waitForNextInterval")
    /\ pc' = "loop"
    /\ UNCHANGED <<script, argv, fs, filename, sampleRate, loopAmount,
                   response, data, i, t, tLast, handle, fault, intr, stop,
                   accepted, written>>

\* ljm.waitForNextInterval raises: except Exception prints it and breaks
WaitFail ==
    /\ pc = "wait"
    /\ Called("waitForNextInterval")
    /\ fault' = "waitForNextInterval"
    /\ stop' = "error"
    /\ pc' = AfterLoop(script)
    /\ UNCHANGED <<script, argv, fs, filename, sampleRate, loopAmount,
                   response, data, i, t, tLast, handle, intr, accepted,
                   written>>

\* KeyboardInterrupt inside the try statement: except KeyboardInterrupt: break
InterruptInLoop ==
    /\ pc \in TryBody
    /\ intr' = pc
    /\ stop' = "interrupt"
    /\ pc' = AfterLoop(script)
    /\ UNCHANGED <<script, argv, fs, filename, sampleRate, loopAmount,
                   response, data, i, t, tLast, handle, calls, fault,
                   accepted, written>>

\* KeyboardInterrupt anywhere else: nothing catches it, the script ends
InterruptElsewhere ==
    /\ pc \notin TryBody \cup Terminal
    /\ intr' = pc
    /\ pc' = "raised"
    /\ UNCHANGED <<script, argv, fs, filename, sampleRate, loopAmount,
                   response, data, i, t, tLast, handle, calls, fault, stop,
                   accepted, written>>

(***************************************************************************)
(* Cleanup and Save Data (bb_fill_sensor.py 150-163, pressure_test.py      *)
(* 151-161), Plot.                                                         *)
(***************************************************************************)
\* ljm.cleanInterval(intervalHandle) returns (bb_fill_sensor.py:154)
CleanIntervalOk ==
    /\ pc = "cleanup"
    /\ Called("cleanInterval")
    /\ pc' = "close"
    /\ UNCHANGED <<script, argv, fs, filename, sampleRate, loopAmount,
                   response, data, i, t, tLast, handle, fault, intr, stop,
                   accepted, written>>

\* ljm.cleanInterval raises, outside any try statement
CleanIntervalFail ==
    /\ pc = "cleanup"
    /\ Called("cleanInterval")
    /\ fault' = "cleanInterval"
    /\ pc' = "raised"
    /\ UNCHANGED <<script, argv, fs, filename, sampleRate, loopAmount,
                   response, data, i, t, tLast, handle, intr, stop, accepted,
                   written>>

\* ljm.close(handle)
Close ==
    /\ pc = "close"
    /\ Called("close")
    /\ handle' = "closed"
    /\ pc' = "save"
    /\ UNCHANGED <<script, argv, fs, filename, sampleRate, loopAmount,
                   response, data, i, t, tLast, fault, intr, stop, accepted,
                   written>>

\* the header entries, one per ", "-separated field of the string
dataLabels(s) ==
    IF s = "pressure_test"
    THEN <<"Time", "AIN0", "Pressure", "AIN2", "Flow Rate">>
    ELSE <<"Time">> \o names(s)

dataUnits(s) ==
    IF s = "pressure_test"
    THEN <<"[s]", "[V]", "[psi]", "[V]", "[SLPM]">>
    ELSE <<"[s]">> \o [k \in 1..numFrames(s) |-> "[V]"]

\* header = '\n'.join([dataLabels, dataUnits]): the lines of the header
header(s) == <<dataLabels(s), dataUnits(s)>>

\* the whole array, the row of zeros included
SaveRowsAll(d) == d

\* data[1:, :]
SaveRows(d) == Tail(d)

\* the path np.savetxt is given
\* bb_fill_sensor.py:163 filename+".csv"
\* pressure_test.py:161  dataDirectory+filename+".csv"
SavePath(s, f) ==
    IF s = "pressure_test" THEN dataDirectory \o f \o ".csv"
    ELSE f \o ".csv"

\* if filename is not "discard": np.savetxt(...)
Save ==
    /\ pc = "save"
    /\ \E same \in SameObject(filename, "discard") :
          IF same
          THEN UNCHANGED written
          ELSE written' = Append(written,
                  [path |-> SavePath(script, filename.val),
                   header |-> header(script),
                   rows |-> SaveRows(data)])
    /\ pc' = "plot"
    /\ UNCHANGED <<script, argv, fs, filename, sampleRate, loopAmount,
                   response, data, i, t, tLast, handle, calls, fault, intr,
                   stop, accepted>>

\* the plot; the script ends
Plot ==
    /\ pc = "plot"
    /\ pc' = "done"
    /\ UNCHANGED <<script, argv, fs, filename, sampleRate, loopAmount,
                   response, data, i, t, tLast, handle, calls, fault, intr,
                   stop, accepted, written>>

(***************************************************************************)
(* The scripts with every input the bounds allow.                          *)
(***************************************************************************)
Next ==
    \/ SetFilename
    \/ SetSampleRate
    \/ SetLoopAmount
    \/ ArgAbsent
    \/ OpenOk
    \/ OpenFail
    \/ ConfigOk
    \/ ConfigFail
    \/ StartLoop
    \/ StartFail
    \/ \E dt \in 0..MaxStep : LoopTop(dt)
    \/ \E r \in Readings(script) : accepted < MaxSamples /\ ReadOk(r)
    \/ ReadFail
    \/ Increment
    \/ WaitOk
    \/ WaitFail
    \/ InterruptInLoop
    \/ InterruptElsewhere
    \/ CleanIntervalOk
    \/ CleanIntervalFail
    \/ Close
    \/ Save
    \/ Plot

Spec == Init /\ [][Next]_vars

(***************************************************************************)
(* pressure_test.py run without an iteration count, with a steady          *)
(* environment: the clock advances by one millisecond more than the sample *)
(* interval between two readings of it, and every read returns level 0.    *)
(***************************************************************************)
InitDefault ==
    /\ Init
    /\ script = "pressure_test"
    /\ argv \in {<<>>, <<"run1">>}
    /\ fs = {}

NextDefault ==
    \/ SetFilename
    \/ ArgAbsent
    \/ OpenOk
    \/ ConfigOk
    \/ StartLoop
    \/ LoopTop(sampleRate + 1)
    \/ ReadOk([k \in 1..numFrames(script) |-> 0])
    \/ Increment
    \/ InterruptInLoop
    \/ Close
    \/ Save
    \/ Plot

SpecDefault == InitDefault /\ [][NextDefault]_vars

(***************************************************************************)
(* The claims.                                                             *)
(***************************************************************************)
\* the rows appended to the buffer so far, in acquisition order
Samples == SubSeq(data, 2, Len(data))

\* C1: in every run in which ljm.openS returned a handle, ljm.close(handle)
\* has been called exactly once when the script has ended, whatever the exit
\* path.
C1_ClosedOnceOnEveryExit ==
    (pc \in Terminal /\ handle # "unset") => calls["close"] = 1

\* C2: with an output name given, a KeyboardInterrupt delivered after the
\* device was opened (during configuration, inside or between loop
\* iterations) still ends with the CSV file written, its rows being exactly
\* the samples appended before the interrupt, in order.
C2_InterruptStillWrites ==
    (/\ pc \in Terminal
     /\ Len(argv) >= 1
     /\ intr \in {"config", "start"} \cup TryBody)
    => (Len(written) = 1 /\ written[1].rows = Samples)

\* C3: with an iteration count N accepted by set_loopAmount, a loop that ends
\* without interrupt or read failure has appended exactly N samples.
C3_ExactlyNSamples ==
    (Len(argv) >= 3 /\ stop = "count") => accepted = loopAmount.val

\* C4: a written file has as many data rows as samples were accepted (the
\* row of zeros is not written, no accepted sample is missing) and a header
\* of exactly 2 lines, for every number of accepted samples.
C4_RowsAndHeader ==
    \A k \in 1..Len(written) :
        /\ Len(written[k].rows) = accepted
        /\ written[k].rows = Samples
        /\ Len(written[k].header) = 2

C4_Witness ==
    /\ Len(written) = 1
    /\ accepted = MaxSamples
    /\ pc = "done"

\* C5: an exception of ljm.eReadNames is caught: the step that raises it
\* appends no record and goes to the cleanup code, and from then on
\* eReadNames is not called again and the buffer does not change.
C5_ReadFailureStops ==
    [][/\ (fault # "eReadNames" /\ fault' = "eReadNames")
          => /\ data' = data
             /\ accepted' = accepted
             /\ stop' = "error"
             /\ pc' = AfterLoop(script)
       /\ fault = "eReadNames"
          => /\ calls'["eReadNames"] = calls["eReadNames"]
             /\ data' = data
             /\ pc' \notin TryBody]_vars

C5_Witness ==
    /\ fault = "eReadNames"
    /\ accepted = 1
    /\ handle = "closed"
    /\ pc = "done"

\* the run was aborted by argument handling
ArgAbort ==
    \/ fault \in {"set_sampleRate", "set_loopAmount"}
    \/ pc = "exit"

\* C6: when argument handling aborts (a second or third argument that is no
\* integer, or a declined prompt) no device operation has been performed, and
\* none is performed afterwards.
C6_AbortBeforeDevice ==
    ArgAbort => (handle = "unset" /\ \A c \in LjmCalls : calls[c] = 0)

C6_Witness ==
    /\ fault = "set_loopAmount"
    /\ pc = "raised"

\* C7: in a written file the labels line and the units line each have one
\* entry per column of the data rows, i.e. as many entries as every record
\* appended to the buffer is wide.
C7_HeaderMatchesColumns ==
    \A k \in 1..Len(written) :
        \A j \in 1..Len(written[k].rows) :
            /\ Len(written[k].header[1]) = Len(written[k].rows[j])
            /\ Len(written[k].header[2]) = Len(written[k].rows[j])

\* C8: without an iteration count (no third argument) the loop is never left
\* because of the iteration counter.
C8_UnboundedWithoutCount ==
    Len(argv) < 3 => stop # "count"

\* C9: in pressure_test.py an iteration goes on to read and append exactly
\* when t - tLast exceeds the sample period; the timestamps of consecutive
\* rows of the buffer (the row of zeros included, so the first accepted
\* timestamp too) differ by more than the period; between iterations tLast
\* is the timestamp of the last row; an iteration that fails the gate changes
\* neither the buffer, nor i, nor tLast.
C9_SampleRateGate ==
    /\ [](script = "pressure_test" =>
            /\ \A k \in 2..Len(data) :
                  data[k][1] - data[k - 1][1] > sampleRate
            /\ pc = "loop" => tLast = data[Len(data)][1])
    /\ [][(script = "pressure_test" /\ pc = "loop" /\ pc' \in {"loop", "read"})
          => /\ (pc' = "read") <=> (t' - tLast > sampleRate)
             /\ pc' = "loop" => UNCHANGED <<data, i, tLast>>]_vars

C9_Witness ==
    /\ script = "pressure_test"
    /\ sampleRate = 1
    /\ Len(data) = 3
    /\ pc = "loop"
    /\ t = tLast + 1

\* C10: if a file exists at the path the CSV is later written to, the user
\* was prompted before acquisition, the run went on exactly when the answer
\* was "y" or "Y", and the file is overwritten only after such an answer.
C10_CheckProtectsWrittenFile ==
    (Len(argv) >= 1 /\ SavePath(script, argv[1]) \in fs)
    => /\ pc # "argv1" => response # ""
       /\ response \in {"y", "Y"} => pc # "exit"
       /\ (response # "" /\ response \notin {"y", "Y"}) => pc = "exit"
       /\ written # <<>> => response \in {"y", "Y"}

====
